---- MODULE Spec2Model ----
(***************************************************************************)
(* A model of pvlib.iotools.mesor.parse_mesor: the header loop that reads  *)
(* the MESOR metadata lines one readline() at a time, and the table phase  *)
(* (pandas.read_csv, the datetime index, the timezone localisation and the *)
(* renaming of the columns).  Text is modelled as text: lines are strings  *)
(* and split, join, replace, startswith and float are computed character   *)
(* by character.                                                           *)
(***************************************************************************)
EXTENDS Integers, Sequences, FiniteSets, TLC

VARIABLES
    stream,         \* fbuf: the lines of the file, without their "\n"
    map_variables,  \* the map_variables argument
    pos,            \* number of lines of fbuf consumed so far
    pc,             \* "format", "header", "read_csv", "index", "rename", "done", "error"
    meta,           \* the meta dict
    names,          \* the list of column names
    data,           \* the DataFrame
    err,            \* the exception that ended the call ("" when none)
    eofReads        \* readline() calls of the header loop that returned '' at end of file

vars == <<stream, map_variables, pos, pc, meta, names, data, err, eofReads>>

----------------------------------------------------------------------------
(* Bounds of the explored inputs.                                          *)

MaxMeta == 2
MaxChannels == 3
MaxRows == 2
MaxEofReads == 2

----------------------------------------------------------------------------
(* Python str methods, on TLA+ strings.                                    *)

Char(s, i) == SubSeq(s, i, i)

IsSpace(c) == c \in {" ", "\t"}

Digits == <<"0", "1", "2", "3", "4", "5", "6", "7", "8", "9">>

IsDigit(c) == \E d \in 1..10 : Digits[d] = c

DigitVal(c) == (CHOOSE d \in 1..10 : Digits[d] = c) - 1

\* s.startswith(p)
StartsWith(s, p) == Len(s) >= Len(p) /\ SubSeq(s, 1, Len(p)) = p

StartsWithAt(s, i, p) == i + Len(p) - 1 <= Len(s) /\ SubSeq(s, i, i + Len(p) - 1) = p

\* s.lstrip(c) for a single character c
RECURSIVE LStrip(_, _)
LStrip(s, c) ==
    IF Len(s) > 0 /\ Char(s, 1) = c THEN LStrip(SubSeq(s, 2, Len(s)), c) ELSE s

\* s.split(): the maximal runs of non-whitespace characters
\* (from is the start of the run that position i is in, i itself when in none)
RECURSIVE SplitWsFrom(_, _, _, _)
SplitWsFrom(s, i, from, acc) ==
    IF i > Len(s)
    THEN IF from = i THEN acc ELSE Append(acc, SubSeq(s, from, i - 1))
    ELSE IF IsSpace(Char(s, i))
         THEN SplitWsFrom(s, i + 1, i + 1,
                          IF from = i THEN acc ELSE Append(acc, SubSeq(s, from, i - 1)))
         ELSE SplitWsFrom(s, i + 1, from, acc)

Split(s) == SplitWsFrom(s, 1, 1, <<>>)

\* s.split(sep) for a non-empty separator: empty pieces are kept
\* (from is the start of the piece that position i is in)
RECURSIVE SplitOnFrom(_, _, _, _, _)
SplitOnFrom(s, sep, i, from, acc) ==
    IF i > Len(s)
    THEN Append(acc, SubSeq(s, from, Len(s)))
    ELSE IF StartsWithAt(s, i, sep)
         THEN SplitOnFrom(s, sep, i + Len(sep), i + Len(sep),
                          Append(acc, SubSeq(s, from, i - 1)))
         ELSE SplitOnFrom(s, sep, i + 1, from, acc)

SplitOn(s, sep) == SplitOnFrom(s, sep, 1, 1, <<>>)

\* sep.join(parts)
RECURSIVE Join(_, _)
Join(sep, parts) ==
    IF Len(parts) = 0 THEN ""
    ELSE IF Len(parts) = 1 THEN parts[1]
    ELSE parts[1] \o sep \o Join(sep, Tail(parts))

\* s.replace(old, new), old non-empty
RECURSIVE ReplaceFrom(_, _, _, _)
ReplaceFrom(s, old, new, i) ==
    IF i > Len(s) THEN ""
    ELSE IF StartsWithAt(s, i, old)
         THEN new \o ReplaceFrom(s, old, new, i + Len(old))
         ELSE Char(s, i) \o ReplaceFrom(s, old, new, i + 1)

Replace(s, old, new) == ReplaceFrom(s, old, new, 1)

\* seq[k:] with k counted from 0 as in Python
From(seq, k) == IF k >= Len(seq) THEN <<>> ELSE SubSeq(seq, k + 1, Len(seq))

AllDigits(s) == Len(s) > 0 /\ \A i \in 1..Len(s) : IsDigit(Char(s, i))

RECURSIVE DigitsToInt(_)
DigitsToInt(s) ==
    IF Len(s) = 0 THEN 0
    ELSE 10 * DigitsToInt(SubSeq(s, 1, Len(s) - 1)) + DigitVal(Char(s, Len(s)))

----------------------------------------------------------------------------
(* Python values: a str, a float, the float nan, and the empty dict {}.    *)
(* A float is kept exactly, as mant * 10^(-exp) with no trailing zero in   *)
(* the fraction, so that two floats are equal iff their records are.       *)

PyStr(s) == [t |-> "str", s |-> s, mant |-> 0, exp |-> 0]
PyFloat(m, e) == [t |-> "float", s |-> "", mant |-> m, exp |-> e]
PyNaN == [t |-> "nan", s |-> "", mant |-> 0, exp |-> 0]
PyEmptyDict == [t |-> "dict", s |-> "", mant |-> 0, exp |-> 0]

RECURSIVE StripTrailingZeros(_)
StripTrailingZeros(s) ==
    IF Len(s) > 0 /\ Char(s, Len(s)) = "0"
    THEN StripTrailingZeros(SubSeq(s, 1, Len(s) - 1))
    ELSE s

\* The decimal literals float() accepts: [+-] digits [. digits] or [+-] . digits
Unsigned(s) == IF Len(s) > 0 /\ Char(s, 1) \in {"+", "-"} THEN SubSeq(s, 2, Len(s)) ELSE s

IsDecimal(s) ==
    LET u == Unsigned(s)
        p == SplitOn(u, ".")
    IN  \/ Len(p) = 1 /\ AllDigits(p[1])
        \/ Len(p) = 2 /\ AllDigits(p[1]) /\ (p[2] = "" \/ AllDigits(p[2]))
        \/ Len(p) = 2 /\ p[1] = "" /\ AllDigits(p[2])

DecimalValue(s) ==
    LET u == Unsigned(s)
        p == SplitOn(u, ".")
        frac == IF Len(p) = 2 THEN StripTrailingZeros(p[2]) ELSE ""
        sign == IF Len(s) > 0 /\ Char(s, 1) = "-" THEN -1 ELSE 1
    IN  PyFloat(sign * DigitsToInt(p[1] \o frac), Len(frac))

\* float(s): [ok |-> whether it returns, v |-> the float]
Float(s) ==
    IF IsDecimal(s) THEN [ok |-> TRUE, v |-> DecimalValue(s)]
    ELSE IF s \in {"nan", "NaN", "NAN", "+nan", "-nan"} THEN [ok |-> TRUE, v |-> PyNaN]
    ELSE [ok |-> FALSE, v |-> PyNaN]

----------------------------------------------------------------------------
(* Python dicts keep insertion order: a dict is a sequence of items.       *)

Item(k, v) == [k |-> k, v |-> v]

Keys(d) == [i \in 1..Len(d) |-> d[i].k]

HasKey(d, k) == \E i \in 1..Len(d) : d[i].k = k

Get(d, k) == d[CHOOSE i \in 1..Len(d) : d[i].k = k].v

\* d[k] = v
Put(d, k, v) ==
    IF HasKey(d, k)
    THEN [i \in 1..Len(d) |-> IF d[i].k = k THEN Item(k, v) ELSE d[i]]
    ELSE Append(d, Item(k, v))

----------------------------------------------------------------------------
(* The state after the first two statements of parse_mesor.                *)

\* A timezone-naive index, and one localized to a fixed offset of h hours
Naive == [aware |-> FALSE, utcoffset |-> 0]
FixedOffset(h) == [aware |-> TRUE, utcoffset |-> h]

\* data before read_csv assigns it
EmptyTable == [columns |-> <<>>, rows |-> <<>>, index |-> <<>>, tz |-> Naive]

InitialMeta ==
    [IPR |-> <<>>, location |-> <<>>, spectral |-> <<>>, comments |-> <<>>,
     timezone |-> PyEmptyDict, instruments |-> <<>>, channels |-> <<>>,
     format |-> PyStr("")]

\* fbuf.readline().rstrip('\n'): the next line, or '' at end of file
AtEof == pos >= Len(stream)

Line == IF AtEof THEN "" ELSE stream[pos + 1]

Advance == IF AtEof THEN pos ELSE pos + 1

Raise(e) ==
    /\ pc' = "error"
    /\ err' = e

\* meta['format'] = fbuf.readline().rstrip('\n').lstrip('#')
ReadFormat ==
    /\ pc = "format"
    /\ meta' = [meta EXCEPT !.format = PyStr(LStrip(Line, "#"))]
    /\ pos' = Advance
    /\ pc' = "header"
    /\ UNCHANGED <<stream, map_variables, names, data, err, eofReads>>

\* The if/elif chain of the header loop: the first prefix that matches
Branch(line) ==
    IF StartsWith(line, "#comment -") THEN "decoration"
    ELSE IF StartsWith(line, "#IPR") THEN "IPR"
    ELSE IF StartsWith(line, "#timezone") THEN "timezone"
    ELSE IF StartsWith(line, "#location") THEN "location"
    ELSE IF StartsWith(line, "#spectral") THEN "spectral"
    ELSE IF StartsWith(line, "#channel") THEN "channel"
    ELSE IF StartsWith(line, "#comment instrument") THEN "instrument"
    ELSE IF StartsWith(line, "#comment") THEN "comment"
    ELSE IF StartsWith(line, "#begindata") THEN "begindata"
    ELSE "none"

InHeader(b) == pc = "header" /\ Branch(Line) = b

HeaderFrame == UNCHANGED <<stream, map_variables, data, eofReads>>

\* if line.startswith('#comment -'): continue
SkipDecoration ==
    /\ InHeader("decoration")
    /\ pos' = Advance
    /\ UNCHANGED <<meta, names, pc, err>>
    /\ HeaderFrame

\* meta['IPR'][line.split()[0].replace('#IPR.', '')] = ' '.join(line.split()[1:])
ReadIPR ==
    /\ InHeader("IPR")
    /\ LET tok == Split(Line)
       IN  meta' = [meta EXCEPT !.IPR =
                       Put(@, Replace(tok[1], "#IPR.", ""), Join(" ", From(tok, 1)))]
    /\ pos' = Advance
    /\ UNCHANGED <<names, pc, err>>
    /\ HeaderFrame

\* meta['timezone'] = line.split()[1]
ReadTimezone ==
    /\ InHeader("timezone")
    /\ LET tok == Split(Line)
       IN  IF Len(tok) < 2
           THEN Raise("IndexError") /\ UNCHANGED meta
           ELSE meta' = [meta EXCEPT !.timezone = PyStr(tok[2])] /\ UNCHANGED <<pc, err>>
    /\ pos' = Advance
    /\ UNCHANGED names
    /\ HeaderFrame

\* meta['location'][line.split('.')[1].split()[0].replace(':', '')] = line.split()[1]
ReadLocation ==
    /\ InHeader("location")
    /\ LET tok == Split(Line)
           dot == SplitOn(Line, ".")
       IN  IF Len(tok) < 2 \/ Len(dot) < 2 \/ Len(Split(dot[2])) < 1
           THEN Raise("IndexError") /\ UNCHANGED meta
           ELSE /\ meta' = [meta EXCEPT !.location =
                               Put(@, Replace(Split(dot[2])[1], ":", ""), tok[2])]
                /\ UNCHANGED <<pc, err>>
    /\ pos' = Advance
    /\ UNCHANGED names
    /\ HeaderFrame

\* meta['spectral'][line.split('.')[1].split()[0]] = ' '.join(line.split()[1:])
ReadSpectral ==
    /\ InHeader("spectral")
    /\ LET tok == Split(Line)
           dot == SplitOn(Line, ".")
       IN  IF Len(dot) < 2 \/ Len(Split(dot[2])) < 1
           THEN Raise("IndexError") /\ UNCHANGED meta
           ELSE /\ meta' = [meta EXCEPT !.spectral =
                               Put(@, Split(dot[2])[1], Join(" ", From(tok, 1)))]
                /\ UNCHANGED <<pc, err>>
    /\ pos' = Advance
    /\ UNCHANGED names
    /\ HeaderFrame

\* ReadChannel appending a code to names only the first time it is declared
ReadChannel_Dedup ==
    /\ InHeader("channel")
    /\ LET tok == Split(Line)
       IN  IF Len(tok) < 2
           THEN Raise("IndexError") /\ UNCHANGED <<meta, names>>
           ELSE /\ meta' = [meta EXCEPT !.channels = Put(@, tok[2], Join(" ", From(tok, 2)))]
                /\ names' = IF HasKey(meta.channels, tok[2]) THEN names
                             ELSE Append(names, tok[2])
                /\ UNCHANGED <<pc, err>>
    /\ pos' = Advance
    /\ HeaderFrame

\* meta['channels'][line.split()[1]] = ' '.join(line.split()[2:])
\* names.append(line.split()[1])
ReadChannel ==
    /\ InHeader("channel")
    /\ LET tok == Split(Line)
       IN  IF Len(tok) < 2
           THEN Raise("IndexError") /\ UNCHANGED <<meta, names>>
           ELSE /\ meta' = [meta EXCEPT !.channels = Put(@, tok[2], Join(" ", From(tok, 2)))]
                /\ names' = Append(names, tok[2])
                /\ UNCHANGED <<pc, err>>
    /\ pos' = Advance
    /\ HeaderFrame

FloatParams == {"mult_cc", "off_cc", "sensitivity"}

\* instrument_param = ' '.join(line.split()[3:]).split(':')[0]
InstrumentParam(line) == SplitOn(Join(" ", From(Split(line), 3)), ":")[1]

\* param_value = ' '.join(':'.join(line.split(':')[1:]).split())
ParamText(line) == Join(" ", Split(Join(":", From(SplitOn(line, ":"), 1))))

\* ParamValue with the conversion left out: every value kept as its string
ParamValue_NoFloat(line) == [ok |-> TRUE, v |-> PyStr(ParamText(line))]

\* if instrument_param in ['mult_cc', 'off_cc', 'sensitivity']:
\*     param_value = float(param_value)
ParamValue(line) ==
    IF InstrumentParam(line) \in FloatParams
    THEN Float(ParamText(line))
    ELSE [ok |-> TRUE, v |-> PyStr(ParamText(line))]

\* The '#comment instrument' branch
ReadInstrument ==
    /\ InHeader("instrument")
    /\ LET tok == Split(Line)
       IN  IF Len(tok) < 3
           THEN Raise("IndexError") /\ UNCHANGED meta
           ELSE LET id == tok[3]
                    known == IF HasKey(meta.instruments, id)
                             THEN meta.instruments
                             ELSE Put(meta.instruments, id, <<>>)
                    val == ParamValue(Line)
                IN  IF ~val.ok
                    THEN /\ Raise("ValueError")
                         /\ meta' = [meta EXCEPT !.instruments = known]
                    ELSE /\ meta' = [meta EXCEPT !.instruments =
                                        Put(known, id,
                                            Put(Get(known, id), InstrumentParam(Line), val.v))]
                         /\ UNCHANGED <<pc, err>>
    /\ pos' = Advance
    /\ UNCHANGED names
    /\ HeaderFrame

\* meta['comments'].append(' '.join(line.split()[1:]))
ReadComment ==
    /\ InHeader("comment")
    /\ meta' = [meta EXCEPT !.comments = Append(@, Join(" ", From(Split(Line), 1)))]
    /\ pos' = Advance
    /\ UNCHANGED <<names, pc, err>>
    /\ HeaderFrame

\* elif line.startswith('#begindata'): break
BeginData ==
    /\ InHeader("begindata")
    /\ pos' = Advance
    /\ pc' = "read_csv"
    /\ UNCHANGED <<meta, names, err>>
    /\ HeaderFrame

\* No branch matches (an unknown or blank line, or '' at end of file): the
\* loop goes round again.  At end of file every later readline() returns ''
\* too, so the loop never leaves; MaxEofReads caps the count of such reads.
NoMatch ==
    /\ InHeader("none")
    /\ AtEof => eofReads < MaxEofReads
    /\ eofReads' = IF AtEof THEN eofReads + 1 ELSE eofReads
    /\ pos' = Advance
    /\ UNCHANGED <<stream, map_variables, meta, names, data, pc, err>>

----------------------------------------------------------------------------
(* pandas.read_csv(fbuf, header=None, names=names, delim_whitespace=True,   *)
(*                 comment='#', na_values=[-9999, -999.9])                   *)

\* The rest of the file, from the line after '#begindata'
Rest == From(stream, pos)

\* Fields without comment='#'
Fields_NoComment(line) == Split(line)

\* comment='#': a line is cut at its first '#'; delim_whitespace: its fields
\* are the runs of non-whitespace characters
Fields(line) == Split(SplitOn(line, "#")[1])

\* skip_blank_lines: a line left with no field is no record
RECURSIVE Records(_)
Records(lines) ==
    IF Len(lines) = 0 THEN <<>>
    ELSE IF Len(Fields(lines[1])) = 0 THEN Records(Tail(lines))
    ELSE <<Fields(lines[1])>> \o Records(Tail(lines))

HasDuplicates(seq) == \E i, j \in 1..Len(seq) : i < j /\ seq[i] = seq[j]

Max(a, b) == IF a >= b THEN a ELSE b

\* The width of the parsed table: the fields of the first record, or the
\* number of names if that is more
Width(recs, cols) == IF Len(recs) = 0 THEN Len(cols) ELSE Max(Len(recs[1]), Len(cols))

\* A record shorter than the table is filled with empty fields
Pad(rec, w) == [j \in 1..w |-> IF j <= Len(rec) THEN rec[j] ELSE ""]

\* na_values=[-9999] alone
NaValues_IntOnly == {"-9999"}

\* na_values=[-9999, -999.9]
NaValues == {"-9999", "-999.9"}

\* The float values compared with a parsed number
NaFloats == {DecimalValue(x) : x \in NaValues}

\* The strings compared with a field: str(x), and "<int>.0" for an integer x
NaStrings ==
    NaValues \cup {x \o ".0" : x \in {y \in NaValues : Len(SplitOn(y, ".")) = 1}}
             \cup {"", "NaN", "nan", "NA", "N/A", "n/a", "NULL", "null", "None", "-NaN", "-nan", "<NA>"}

IsNaField(f) == f \in NaStrings

\* A column is numeric when every field that is not a missing-value string
\* is a number; otherwise its fields stay strings
IsNumericColumn(fields) == \A i \in 1..Len(fields) : IsNaField(fields[i]) \/ IsDecimal(fields[i])

NumericCell(f) ==
    IF IsNaField(f) THEN PyNaN
    ELSE IF DecimalValue(f) \in NaFloats THEN PyNaN
    ELSE DecimalValue(f)

TextCell(f) == IF IsNaField(f) THEN PyNaN ELSE PyStr(f)

\* The DataFrame read_csv returns for these records and names; when the
\* records are wider than names, the leading columns become the index
Frame(recs, cols) ==
    LET w == Width(recs, cols)
        shift == w - Len(cols)
        field(i, j) == Pad(recs[i], w)[shift + j]
        column(j) == [i \in 1..Len(recs) |-> field(i, j)]
        cell(i, j) == IF IsNumericColumn(column(j))
                      THEN NumericCell(field(i, j))
                      ELSE TextCell(field(i, j))
    IN  [columns |-> cols,
         rows |-> [i \in 1..Len(recs) |-> [j \in 1..Len(cols) |-> cell(i, j)]],
         index |-> [i \in 1..Len(recs) |-> ""],
         tz |-> Naive]

\* [ok, error, frame]: what read_csv does
ReadCsvResult(lines, cols) ==
    LET recs == Records(lines)
        w == Width(recs, cols)
    IN  IF HasDuplicates(cols)
        THEN [ok |-> FALSE, error |-> "ValueError", frame |-> EmptyTable]
        ELSE IF w = 0
        THEN [ok |-> FALSE, error |-> "EmptyDataError", frame |-> EmptyTable]
        ELSE IF \E i \in 1..Len(recs) : Len(recs[i]) > w
        THEN [ok |-> FALSE, error |-> "ParserError", frame |-> EmptyTable]
        ELSE [ok |-> TRUE, error |-> "", frame |-> Frame(recs, cols)]

ReadCsv ==
    /\ pc = "read_csv"
    /\ LET r == ReadCsvResult(Rest, names)
       IN  IF r.ok
           THEN data' = r.frame /\ pc' = "index" /\ UNCHANGED err
           ELSE Raise(r.error) /\ UNCHANGED data
    /\ pos' = Len(stream)
    /\ UNCHANGED <<stream, map_variables, meta, names, eofReads>>

----------------------------------------------------------------------------
(* data.index = pd.to_datetime(data['date'] + ' ' + data['time'])          *)

ColumnOf(df, name) == CHOOSE j \in 1..Len(df.columns) : df.columns[j] = name

HasColumn(df, name) == \E j \in 1..Len(df.columns) : df.columns[j] = name

ColumnCells(df, name) == [i \in 1..Len(df.rows) |-> df.rows[i][ColumnOf(df, name)]]

\* str + str is the concatenation, a missing operand gives a missing result
AddText(a, b) == IF a.t = "str" /\ b.t = "str" THEN PyStr(a.s \o b.s) ELSE PyNaN

\* A float64 column (no text in it) cannot be added to a str; neither can a number
AddFails(left, right) ==
    \/ Len(left) > 0 /\ \A i \in 1..Len(left) : left[i].t # "str"
    \/ \E i \in 1..Len(right) : right[i].t = "float"

IsDateText(d) ==
    LET p == SplitOn(d, "-") IN Len(p) = 3 /\ \A k \in 1..3 : AllDigits(p[k])

IsTimeText(c) ==
    LET p == SplitOn(c, ":") IN Len(p) = 3 /\ \A k \in 1..3 : AllDigits(p[k])

IsDateTime(s) ==
    LET tok == Split(s) IN Len(tok) = 2 /\ IsDateText(tok[1]) /\ IsTimeText(tok[2])

\* pd.to_datetime of one element: the wall-clock time, NaT for a missing one
ToDatetime(c) == IF c.t = "str" THEN c.s ELSE "NaT"

SetIndex ==
    /\ pc = "index"
    /\ IF ~HasColumn(data, "date") \/ ~HasColumn(data, "time")
       THEN Raise("KeyError") /\ UNCHANGED data
       ELSE LET date == ColumnCells(data, "date")
                time == ColumnCells(data, "time")
                both == [i \in 1..Len(date) |->
                            AddText(AddText(date[i], PyStr(" ")), time[i])]
            IN  IF AddFails(date, time)
                THEN Raise("TypeError") /\ UNCHANGED data
                ELSE IF \E i \in 1..Len(both) : both[i].t = "str" /\ ~IsDateTime(both[i].s)
                THEN Raise("ValueError") /\ UNCHANGED data
                ELSE /\ data' = [data EXCEPT !.index =
                                    [i \in 1..Len(both) |-> ToDatetime(both[i])]]
                     /\ pc' = "localize"
                     /\ UNCHANGED err
    /\ UNCHANGED <<stream, map_variables, pos, meta, names, eofReads>>

----------------------------------------------------------------------------
(* if meta['timezone'] != 'TST':                                           *)
(*     tz = meta['timezone'].replace('UTC+', 'Etc/GMT+')                   *)
(*                          .replace('UTC-', 'Etc/GMT-')                   *)
(*     data.index = data.index.tz_localize(tz)                             *)
(*     data = data.drop(columns=['date', 'time'])                          *)

ZoneName(timezone) == Replace(Replace(timezone, "UTC+", "Etc/GMT+"), "UTC-", "Etc/GMT-")

\* The hour count of a zone name: one or two digits, no leading zero
IsHours(s) == AllDigits(s) /\ Len(s) <= 2 /\ (Len(s) = 1 \/ Char(s, 1) # "0")

\* The zones of the time zone database a rewritten MESOR timezone can name.
\* The database names the Etc zones by the POSIX convention: Etc/GMT+N is N
\* hours behind UTC, Etc/GMT-N is N hours ahead.
Zone(tz) ==
    LET n == SubSeq(tz, 9, Len(tz))
    IN  IF tz \in {"UTC", "Etc/UTC", "Etc/GMT", "GMT"}
        THEN [ok |-> TRUE, tz |-> FixedOffset(0)]
        ELSE IF StartsWith(tz, "Etc/GMT+") /\ IsHours(n) /\ DigitsToInt(n) <= 12
        THEN [ok |-> TRUE, tz |-> FixedOffset(0 - DigitsToInt(n))]
        ELSE IF StartsWith(tz, "Etc/GMT-") /\ IsHours(n) /\ DigitsToInt(n) <= 14
        THEN [ok |-> TRUE, tz |-> FixedOffset(DigitsToInt(n))]
        ELSE [ok |-> FALSE, tz |-> Naive]

\* data.drop(columns=dropped)
Kept(df, dropped) == {j \in 1..Len(df.columns) : df.columns[j] \notin dropped}

RECURSIVE Select(_, _, _)
Select(seq, keep, j) ==
    IF j > Len(seq) THEN <<>>
    ELSE IF j \in keep THEN <<seq[j]>> \o Select(seq, keep, j + 1)
    ELSE Select(seq, keep, j + 1)

\* Drop with the result thrown away: the columns stay
Drop_Nothing(df, dropped) == df

Drop(df, dropped) ==
    [df EXCEPT !.columns = Select(df.columns, Kept(df, dropped), 1),
               !.rows = [i \in 1..Len(df.rows) |-> Select(df.rows[i], Kept(df, dropped), 1)]]

\* meta['timezone'] != 'TST'
Localizes(timezone) == timezone # PyStr("TST")

Localize ==
    /\ pc = "localize"
    /\ IF ~Localizes(meta.timezone)
       THEN pc' = "rename" /\ UNCHANGED <<data, err>>
       ELSE IF meta.timezone.t # "str"
       THEN Raise("AttributeError") /\ UNCHANGED data
       ELSE LET z == Zone(ZoneName(meta.timezone.s))
            IN  IF ~z.ok
                THEN Raise("UnknownTimeZoneError") /\ UNCHANGED data
                ELSE /\ data' = Drop([data EXCEPT !.tz = z.tz], {"date", "time"})
                     /\ pc' = "rename"
                     /\ UNCHANGED err
    /\ UNCHANGED <<stream, map_variables, pos, meta, names, eofReads>>

----------------------------------------------------------------------------
(* if map_variables: data = data.rename(columns=MESOR_VARIABLE_MAP)        *)
(* return data, meta                                                       *)

\* MESOR_VARIABLE_MAP with the values of GHI and DNI exchanged
MESOR_VARIABLE_MAP_Swapped ==
    << Item("t_air", "temp_air"), Item("rh", "relative_humidity"),
       Item("ws", "wind_speed"), Item("wd", "wind_direction"),
       Item("bp", "air_pressure"), Item("GHI", "dni"), Item("DNI", "ghi"),
       Item("DHI", "dhi") >>

MESOR_VARIABLE_MAP ==
    << Item("t_air", "temp_air"), Item("rh", "relative_humidity"),
       Item("ws", "wind_speed"), Item("wd", "wind_direction"),
       Item("bp", "air_pressure"), Item("GHI", "ghi"), Item("DNI", "dni"),
       Item("DHI", "dhi") >>

\* The name rename(columns=mapper) gives a column
Renamed(mapper, name) == IF HasKey(mapper, name) THEN Get(mapper, name) ELSE name

Rename(df, mapper) ==
    [df EXCEPT !.columns = [j \in 1..Len(df.columns) |-> Renamed(mapper, df.columns[j])]]

\* MapVariables renaming whatever map_variables says
MapVariables_Always ==
    /\ pc = "rename"
    /\ data' = Rename(data, MESOR_VARIABLE_MAP)
    /\ pc' = "done"
    /\ UNCHANGED <<stream, map_variables, pos, meta, names, err, eofReads>>

MapVariables ==
    /\ pc = "rename"
    /\ data' = IF map_variables THEN Rename(data, MESOR_VARIABLE_MAP) ELSE data
    /\ pc' = "done"
    /\ UNCHANGED <<stream, map_variables, pos, meta, names, err, eofReads>>

----------------------------------------------------------------------------
(* The files read.                                                         *)

SeqsUpTo(S, n) == UNION {[1..k -> S] : k \in 0..n}

FormatLine == "#MESOR 1.1 05.2007"

\* Metadata lines, one or more of each kind the header loop tells apart
MetaLines ==
    { "#comment -----------",
      "#IPR.providerName: Some Institute",
      "#timezone",
      "#location.latitude[deg:N]: 55.79",
      "#spectral.range: 300  3000",
      "#comment instrument 12 sensitivity: 14.7 uV/Wm-2",
      "#comment instrument 12 sensitivity: 14.7",
      "#comment instrument 12 model:  CM  11",
      "#comment measured at 2 m" }

ChannelLines ==
    { "#channel date YYYY-MM-DD",
      "#channel time HH:MM:SS",
      "#channel ghi Global horizontal irradiance" }

TimezoneLines == {"#timezone UTC-2", "#timezone TST"}

DataLines ==
    { "2005-02-01 02:00:00 -9999",
      "2005-02-01 03:00:00 -999.9",
      "2005-02-01 04:00:00 -999",
      "2005-02-01 07:00:00 -9999.0",
      "2005-02-01 05:00:00",
      "2005-02-01 06:00:00 9999 7",
      "#channel DNI Direct normal irradiance",
      "#begindata",
      "" }

\* A header with metadata lines, cut off or closed by '#begindata'
MetaStreams ==
    { <<FormatLine>> \o m \o e :
        m \in SeqsUpTo(MetaLines, MaxMeta), e \in {<<>>, <<"#begindata">>} }

\* Any declaration of channels, with or without a timezone, and one row or none
ChannelStreams ==
    { z \o c \o <<"#begindata">> \o r :
        z \in {<<FormatLine>>} \cup {<<FormatLine, t>> : t \in TimezoneLines},
        c \in SeqsUpTo(ChannelLines, MaxChannels),
        r \in {<<>>, <<"2005-02-01 01:00:00 0.0">>} }

\* A complete header, and any lines after '#begindata'
DataStreams ==
    { <<FormatLine, t, "#channel date YYYY-MM-DD", "#channel time HH:MM:SS",
        "#channel GHI Global horizontal irradiance", "#begindata">> \o r :
        t \in {"#timezone UTC+1", "#timezone TST"},
        r \in SeqsUpTo(DataLines, MaxRows) }

Streams == {<<>>} \cup MetaStreams \cup ChannelStreams \cup DataStreams

----------------------------------------------------------------------------

Init ==
    /\ stream \in Streams
    /\ map_variables \in BOOLEAN
    /\ pos = 0
    /\ pc = "format"
    /\ meta = InitialMeta
    /\ names = <<>>
    /\ data = EmptyTable
    /\ err = ""
    /\ eofReads = 0

Next ==
    \/ ReadFormat
    \/ SkipDecoration
    \/ ReadIPR
    \/ ReadTimezone
    \/ ReadLocation
    \/ ReadSpectral
    \/ ReadChannel
    \/ ReadInstrument
    \/ ReadComment
    \/ BeginData
    \/ NoMatch
    \/ ReadCsv
    \/ SetIndex
    \/ Localize
    \/ MapVariables

Spec == Init /\ [][Next]_vars

----------------------------------------------------------------------------
(* What the properties below read off the file itself.                     *)

\* The first line the header loop can take for '#begindata' (0 when none)
BeginIndex ==
    IF \E i \in 2..Len(stream) : StartsWith(stream[i], "#begindata")
    THEN CHOOSE i \in 2..Len(stream) :
            /\ StartsWith(stream[i], "#begindata")
            /\ \A k \in 2..(i - 1) : ~StartsWith(stream[k], "#begindata")
    ELSE 0

NoBeginData == \A i \in 1..Len(stream) : ~StartsWith(stream[i], "#begindata")

\* The lines after the '#begindata' line
DataSection == IF BeginIndex = 0 THEN <<>> ELSE From(stream, BeginIndex)

\* The header lines: after the format line, before '#begindata'
HeaderLines == IF BeginIndex = 0 THEN 2..Len(stream) ELSE 2..(BeginIndex - 1)

IsRowLine(line) == line # "" /\ ~StartsWith(line, "#")

RowLines == SelectSeq(DataSection, IsRowLine)

\* The whitespace-separated fields of the i-th row line
RowFields(i) == Split(RowLines[i])

Returned == pc = "done"

\* The positions in names of the columns the returned table keeps
KeptNames ==
    Select([j \in 1..Len(names) |-> j],
           {j \in 1..Len(names) : ~(data.tz.aware /\ names[j] \in {"date", "time"})}, 1)

----------------------------------------------------------------------------
\* C1: a file that ends without a '#begindata' line makes parse_mesor fail
\* with a truncated-header error: once the header loop has read past the end
\* of such a file the call has failed; it is neither still reading nor
\* returned.
C1_TruncatedHeaderFails ==
    (NoBeginData /\ eofReads >= 1) => pc = "error"

\* C2: with a well-formed header, a data row whose number of fields differs
\* from the number of columns makes the parse fail: no table is returned for
\* a file with such a row.
C2_ShortRowFails ==
    Returned => \A i \in 1..Len(RowLines) : Len(RowFields(i)) = Len(names)

\* C3: with a header value UTC+N (resp. UTC-N) every index timestamp is the
\* row's "date time" text localized to the fixed offset +N (resp. -N) hours.
C3_OffsetSign ==
    LET z == meta.timezone.s
        n == DigitsToInt(SubSeq(z, 5, Len(z)))
    IN  (Returned /\ Len(data.index) > 0 /\ meta.timezone.t = "str" /\ Len(z) > 4) =>
            /\ StartsWith(z, "UTC+") => data.tz = FixedOffset(n)
            /\ StartsWith(z, "UTC-") => data.tz = FixedOffset(0 - n)
            /\ \A i \in 1..Len(data.index) :
                  Len(RowFields(i)) >= 2 =>
                      data.index[i] = RowFields(i)[1] \o " " \o RowFields(i)[2]

----------------------------------------------------------------------------
(* The instrument lines of the header, read off the file.                  *)

IsInstrumentLine(i) ==
    /\ StartsWith(stream[i], "#comment instrument")
    /\ ~StartsWith(stream[i], "#comment -")
    /\ i \in HeaderLines
    /\ Len(Split(stream[i])) >= 3

\* The position of the first c in s (0 when there is none)
FirstIndex(s, c) ==
    IF \E k \in 1..Len(s) : Char(s, k) = c
    THEN CHOOSE k \in 1..Len(s) : Char(s, k) = c /\ \A m \in 1..(k - 1) : Char(s, m) # c
    ELSE 0

\* The text after the first ':' of the line, runs of blanks made one blank
AfterFirstColon(line) ==
    IF FirstIndex(line, ":") = 0 THEN ""
    ELSE Join(" ", Split(SubSeq(line, FirstIndex(line, ":") + 1, Len(line))))

\* The parameter name: the text after the instrument id, up to the first ':'
ParamName(line) ==
    LET d == Join(" ", From(Split(line), 3))
    IN  IF FirstIndex(d, ":") = 0 THEN d ELSE SubSeq(d, 1, FirstIndex(d, ":") - 1)

InstrumentId(line) == Split(line)[3]

\* Line i has been read by the header loop, and without an exception
ReadWell(i) == i <= pos /\ ~(pc = "error" /\ i = pos)

\* No later line read so far sets the same parameter of the same instrument
LastSetting(i) ==
    \A k \in (i + 1)..pos :
        ~(/\ IsInstrumentLine(k)
          /\ InstrumentId(stream[k]) = InstrumentId(stream[i])
          /\ ParamName(stream[k]) = ParamName(stream[i]))

Stored(i) == Get(Get(meta.instruments, InstrumentId(stream[i])), ParamName(stream[i]))

IsStored(i) ==
    /\ HasKey(meta.instruments, InstrumentId(stream[i]))
    /\ HasKey(Get(meta.instruments, InstrumentId(stream[i])), ParamName(stream[i]))

\* C4 as stated: an instrument line whose parameter is mult_cc, off_cc or
\* sensitivity stores a float at instruments[id][param], the parse does not
\* fail on text after the number, and
\* '#comment instrument 12 sensitivity: 14.7 uV/Wm-2' stores 14.7.
C4_FloatDespiteUnit ==
    \A i \in 2..pos :
        (IsInstrumentLine(i) /\ LastSetting(i)
            /\ ParamName(stream[i]) \in {"mult_cc", "off_cc", "sensitivity"}
            /\ IsDecimal(Split(AfterFirstColon(stream[i]))[1])) =>
                /\ ReadWell(i)
                /\ IsStored(i)
                /\ Stored(i) = DecimalValue(Split(AfterFirstColon(stream[i]))[1])

\* C4, amended: an instrument line whose parameter is mult_cc, off_cc or
\* sensitivity either stores a float at instruments[id][param] (never a
\* string), when the text after the first ':' is a number and nothing else,
\* or ends the parse with a ValueError at that line, when it is not (trailing
\* unit text included); '#comment instrument 12 sensitivity: 14.7' stores
\* 14.7.  For every other parameter name the stored value is the string after
\* the first ':' with its whitespace normalized.
C4_FloatOrValueError ==
    \A i \in 2..pos :
        (IsInstrumentLine(i) /\ LastSetting(i)) =>
            LET text == AfterFirstColon(stream[i])
            IN  IF ParamName(stream[i]) \in {"mult_cc", "off_cc", "sensitivity"}
                THEN /\ IsDecimal(text) =>
                            /\ ReadWell(i)
                            /\ IsStored(i)
                            /\ Stored(i).t = "float"
                            /\ text = "14.7" => Stored(i) = PyFloat(147, 1)
                     /\ (~IsDecimal(text) /\ text \notin {"nan", "NaN"}) =>
                            /\ pc = "error" /\ err = "ValueError" /\ pos = i
                            /\ IsStored(i) => Stored(i).t = "float"
                ELSE /\ ReadWell(i)
                     /\ IsStored(i)
                     /\ Stored(i) = PyStr(text)

\* The loop has read a float parameter and a string parameter of one instrument
C4_Witness ==
    /\ pc = "header"
    /\ HasKey(meta.instruments, "12")
    /\ HasKey(Get(meta.instruments, "12"), "sensitivity")
    /\ Get(Get(meta.instruments, "12"), "sensitivity") = PyFloat(147, 1)
    /\ HasKey(Get(meta.instruments, "12"), "model")
    /\ Get(Get(meta.instruments, "12"), "model") = PyStr("CM 11")

----------------------------------------------------------------------------
\* C5: a returned table either has a naive index and its date and time
\* columns, when the header timezone is TST, or an index localized to a
\* fixed offset and neither column, for any other timezone; nothing is
\* returned in between, and nothing naive when the header has no timezone.
C5_TimezoneLaw ==
    Returned =>
        IF meta.timezone = PyStr("TST")
        THEN /\ ~data.tz.aware
             /\ HasColumn(data, "date") /\ HasColumn(data, "time")
        ELSE /\ data.tz.aware
             /\ ~HasColumn(data, "date") /\ ~HasColumn(data, "time")
             /\ meta.timezone.t = "str"

\* A table with a row returned for a fixed offset, columns not renamed
C5_Witness ==
    /\ Returned
    /\ meta.timezone = PyStr("UTC-2")
    /\ Len(data.rows) > 0
    /\ data.columns = <<"ghi">>

----------------------------------------------------------------------------
(* The channel declarations of the header, read off the file.              *)

IsChannelLine(line) == StartsWith(line, "#channel") /\ Len(Split(line)) >= 2

RECURSIVE DeclaredIn(_)
DeclaredIn(lines) ==
    IF Len(lines) = 0 THEN <<>>
    ELSE IF IsChannelLine(lines[1]) THEN <<Split(lines[1])[2]>> \o DeclaredIn(Tail(lines))
    ELSE DeclaredIn(Tail(lines))

\* The channel codes in the order of their '#channel' lines, repeats kept
Declared == DeclaredIn([k \in 1..Cardinality(HeaderLines) |-> stream[k + 1]])

RECURSIVE FirstSeen(_)
FirstSeen(seq) ==
    IF Len(seq) = 0 THEN <<>>
    ELSE LET init == FirstSeen(SubSeq(seq, 1, Len(seq) - 1))
             last == seq[Len(seq)]
         IN  IF \E k \in 1..Len(init) : init[k] = last THEN init ELSE Append(init, last)

NotDateTime(name) == name \notin {"date", "time"}

HeaderDone == pc \in {"read_csv", "index", "localize", "rename", "done"}

----------------------------------------------------------------------------
\* C7: the returned table has one row for each line after the first
\* '#begindata' line that is not empty and does not start with '#'; and
\* once the header loop is left no step changes the metadata.
C7_RowCount ==
    /\ [](Returned => Len(data.rows) = Len(RowLines) /\ Len(data.index) = Len(RowLines))
    /\ [][HeaderDone => meta' = meta]_vars

\* A returned table with one row, read from a data section that starts with
\* a second '#begindata' line
C7_Witness ==
    /\ Returned
    /\ Len(data.rows) = 1
    /\ Len(DataSection) = 2
    /\ StartsWith(DataSection[1], "#begindata")

----------------------------------------------------------------------------
\* C8: in every row and channel column of the returned table, a field that
\* reads -9999 or -999.9 is missing, and every other numeric field is its own
\* value, in the row and column of the file.
C8_MissingValues ==
    Returned =>
        LET fields == [i \in 1..Len(RowLines) |-> RowFields(i)]
            kept == KeptNames
        IN  (\A i \in 1..Len(fields) : Len(fields[i]) <= Len(names)) =>
                \A i \in 1..Len(fields) : \A q \in 1..Len(kept) :
                    LET j == kept[q]
                        f == fields[i][j]
                    IN  (NotDateTime(names[j]) /\ j <= Len(fields[i]) /\ IsDecimal(f)) =>
                            IF DecimalValue(f) \in {PyFloat(-9999, 0), PyFloat(-9999, 1)}
                            THEN data.rows[i][q] = PyNaN
                            ELSE data.rows[i][q] = DecimalValue(f)

\* A returned table with -999.9 read as missing in one row and -999 as
\* itself in the other
C8_Witness ==
    /\ Returned
    /\ Len(RowLines) = 2
    /\ RowFields(1)[3] = "-999.9"
    /\ RowFields(2)[3] = "-999"
    /\ data.rows[1][Len(data.columns)] = PyNaN
    /\ data.rows[2][Len(data.columns)] = PyFloat(-999, 0)

----------------------------------------------------------------------------
\* The pvlib name of a MESOR channel code, and the code of a pvlib name
PvlibName(code) ==
    CASE code = "t_air" -> "temp_air"
      [] code = "rh" -> "relative_humidity"
      [] code = "ws" -> "wind_speed"
      [] code = "wd" -> "wind_direction"
      [] code = "bp" -> "air_pressure"
      [] code = "GHI" -> "ghi"
      [] code = "DNI" -> "dni"
      [] code = "DHI" -> "dhi"
      [] OTHER -> code

MesorCode(name) ==
    CASE name = "temp_air" -> "t_air"
      [] name = "relative_humidity" -> "rh"
      [] name = "wind_speed" -> "ws"
      [] name = "wind_direction" -> "wd"
      [] name = "air_pressure" -> "bp"
      [] name = "ghi" -> "GHI"
      [] name = "dni" -> "DNI"
      [] name = "dhi" -> "DHI"
      [] OTHER -> name

PvlibNames ==
    {"temp_air", "relative_humidity", "wind_speed", "wind_direction",
     "air_pressure", "ghi", "dni", "dhi"}

\* C9: map_variables changes the names of the columns and nothing else: the
\* last step of the call leaves the index, the cells, the order of the
\* columns and the metadata as they are, with map_variables=False it leaves
\* the names too, and with map_variables=True it gives each column named by
\* a key of MESOR_VARIABLE_MAP its mapped name (GHI becomes ghi) and leaves
\* every other name.
C9_OnlyNamesChange ==
    [][pc = "rename" =>
          /\ pc' = "done"
          /\ meta' = meta
          /\ data'.rows = data.rows
          /\ data'.index = data.index
          /\ data'.tz = data.tz
          /\ Len(data'.columns) = Len(data.columns)
          /\ \A j \in 1..Len(data.columns) :
                data'.columns[j] =
                    IF map_variables THEN PvlibName(data.columns[j]) ELSE data.columns[j]
          /\ map_variables => ~HasColumn(data', "GHI")]_vars

\* A table with rows returned with GHI renamed to ghi and date and time kept
C9_Witness ==
    /\ Returned
    /\ map_variables
    /\ names = <<"date", "time", "GHI">>
    /\ data.columns = <<"date", "time", "ghi">>
    /\ Len(data.rows) = 2

\* The channel codes of the columns of the returned table, in column order
ReturnedCodes == [q \in 1..Len(KeptNames) |-> names[KeptNames[q]]]

\* C10 as stated: for any declared channel codes, the reverse of
\* MESOR_VARIABLE_MAP applied to the columns returned with
\* map_variables=True gives back the channel codes, column by column, and a
\* code that is a pvlib name already (ghi) is not turned into another code.
C10_ReverseRecovers ==
    (Returned /\ map_variables) =>
        /\ Len(data.columns) = Len(ReturnedCodes)
        /\ \A q \in 1..Len(data.columns) : MesorCode(data.columns[q]) = ReturnedCodes[q]

\* C10, amended: when no declared channel code is itself a value of
\* MESOR_VARIABLE_MAP (temp_air, relative_humidity, wind_speed,
\* wind_direction, air_pressure, ghi, dni, dhi), the reverse of the map
\* applied to the columns returned with map_variables=True gives back the
\* channel codes, column by column, and no two columns have the same name.
C10_ReverseRecoversCodes ==
    (Returned /\ map_variables /\ \A j \in 1..Len(names) : names[j] \notin PvlibNames) =>
        /\ Len(data.columns) = Len(ReturnedCodes)
        /\ \A q \in 1..Len(data.columns) : MesorCode(data.columns[q]) = ReturnedCodes[q]
        /\ ~HasDuplicates(data.columns)

\* A localized table returned with its one channel GHI renamed
C10_Witness ==
    /\ Returned
    /\ map_variables
    /\ ReturnedCodes = <<"GHI">>
    /\ data.columns = <<"ghi">>
    /\ Len(data.rows) > 0

====
